---- MODULE Spec2Model ----
(***************************************************************************)
(* Model of ib_connection_checker.py: the IBConnectionChecker callbacks    *)
(* (error, connectAck, nextValidId), the poller check_connection and the   *)
(* __main__ block that maps its result to the process exit code.           *)
(*                                                                         *)
(* Two threads of control: the caller of check_connection ("poller", its   *)
(* position is pc) and the thread running app.run ("listener", api_thread  *)
(* and l_pc), which invokes the callbacks.  The vendor library is opaque:  *)
(* which events it delivers, and when, is nondeterministic.                *)
(*                                                                         *)
(* Time is a discrete clock in units of 50 ms.  Time passes only where the *)
(* code waits (time.sleep, Thread.join); every other statement is          *)
(* instantaneous.                                                          *)
(***************************************************************************)
EXTENDS Integers, FiniteSets, Sequences, TLC

\* ---------------------------------------------------------------- bounds
MaxTimeout == 3     \* the timeout argument ranges over 0..MaxTimeout clock units
MaxEvents == 2      \* events the listener delivers in one session

\* ------------------------------------------------------ program constants
PollInterval == 2   \* time.sleep(0.1): 100 ms, in units of 50 ms
JoinTimeout == 100  \* api_thread.join(timeout=5): 5 s, in units of 50 ms

non_essential_errors == {2104, 2106, 2158}
critical_errors == {1100, 1101, 1102, 1300, 504, 502, 509, 10054}
\* codes in neither list (200: no security definition, 2103: farm broken)
OtherCodes == {200, 2103}
Codes == non_essential_errors \cup critical_errors \cup OtherCodes
Messages == {"m1", "m2"}

None == <<>>

VARIABLES
    pc,                     \* position of the poller (check_connection, __main__)
    run_as_main,            \* __name__ == "__main__": lines 121-122 ran, threading is bound
    timeout,                \* the timeout argument
    clock,                  \* time.time()
    start_time,             \* check_connection's local start_time
    sleepLeft,              \* remaining time of the current time.sleep(0.1)
    joinLeft,               \* remaining time of api_thread.join(timeout=5)
    connection_successful,  \* app.connection_successful
    connection_error,       \* app.connection_error: None or <<code, message>>
    api_thread,             \* "none", "running", "finished"
    l_pc,                   \* listener: "idle" or inside nextValidId
    disconnects,            \* calls of app.disconnect(), by caller
    logged,                 \* records emitted by logger (level ERROR)
    printed,                \* kinds of lines written by print
    result,                 \* return value of check_connection
    exit_code,              \* argument of sys.exit
    \* history of the session (not read by the program)
    nEvents,                \* number of events delivered
    readySeen,              \* nextValidId was delivered
    readyInTime,            \* ... while less than timeout had elapsed since start_time
    critSeen,               \* an error with a critical code was delivered
    critBeforeReady,        \* a critical error was delivered before any nextValidId
    ackSeen,                \* connectAck was delivered
    nonEssSeen,             \* an error with a non-essential code was delivered
    critAfterNonEss,        \* ... and a critical error after it
    critAge,                \* time since the first critical error delivered while the
                            \* call awaited readiness (not returned, success flag not
                            \* set), -1 if none, counted up to PollInterval + 1
    connectRaised           \* app.connect raised

vars == <<pc, run_as_main, timeout, clock, start_time, sleepLeft, joinLeft,
          connection_successful, connection_error, api_thread, l_pc, disconnects,
          logged, printed, result, exit_code, nEvents, readySeen, readyInTime,
          critSeen,
          critBeforeReady, ackSeen, nonEssSeen, critAfterNonEss, critAge,
          connectRaised>>

pollerVars == <<pc, start_time, sleepLeft, joinLeft, result, exit_code, connectRaised>>
flagVars == <<connection_successful, connection_error>>
histVars == <<nEvents, readySeen, readyInTime, critSeen, critBeforeReady, ackSeen,
              nonEssSeen, critAfterNonEss, critAge>>
inputVars == <<run_as_main, timeout>>

\* IBConnectionChecker.__init__ and the arguments of the invocation
Init ==
    /\ pc = "connect"
    /\ run_as_main \in BOOLEAN
    /\ timeout \in 0..MaxTimeout
    /\ clock = 0
    /\ start_time = 0
    /\ sleepLeft = 0
    /\ joinLeft = 0
    /\ connection_successful = FALSE
    /\ connection_error = None
    /\ api_thread = "none"
    /\ l_pc = "idle"
    /\ disconnects = [poller |-> 0, listener |-> 0]
    /\ logged = 0
    /\ printed = {}
    /\ result = "none"
    /\ exit_code = -1
    /\ nEvents = 0
    /\ readySeen = FALSE
    /\ readyInTime = FALSE
    /\ critSeen = FALSE
    /\ critBeforeReady = FALSE
    /\ ackSeen = FALSE
    /\ nonEssSeen = FALSE
    /\ critAfterNonEss = FALSE
    /\ critAge = -1
    /\ connectRaised = FALSE

\* ------------------------------------------------------------- callbacks

\* mutant: 2158 is missing from non_essential_errors
error_passes_filter_without_2158(errorCode) == errorCode \notin {2104, 2106}

\* mutant: the filter stays closed once a non-essential code was seen
error_passes_filter_sticky(errorCode) ==
    errorCode \notin non_essential_errors /\ ~nonEssSeen

\* error(): the gate of line 43; only codes passing it are logged
error_passes_filter(errorCode) == errorCode \notin non_essential_errors

\* error(): the nested test of line 48
error_is_critical(errorCode) ==
    error_passes_filter(errorCode) /\ errorCode \in critical_errors

\* mutant: a logged error that is not critical clears the failure state
error_connection_error_clearing(errorCode, errorString, cur) ==
    IF errorCode \in critical_errors THEN <<errorCode, errorString>>
    ELSE IF errorCode \notin non_essential_errors THEN None ELSE cur

\* mutant: only the first critical error is recorded
error_connection_error_first_wins(errorCode, errorString, cur) ==
    IF errorCode \in critical_errors /\ cur = None THEN <<errorCode, errorString>> ELSE cur

\* error(): value of self.connection_error after the callback
error_connection_error(errorCode, errorString, cur) ==
    IF error_is_critical(errorCode) THEN <<errorCode, errorString>> ELSE cur

\* mutant: logger.error is called inside the critical branch only
error_logged_only_critical(errorCode, cur) ==
    IF errorCode \in critical_errors THEN cur + 1 ELSE cur

\* error(): number of records logged after the callback (logger.error, line 44)
error_logged(errorCode, cur) ==
    IF error_passes_filter(errorCode) THEN cur + 1 ELSE cur

\* connectAck(): value assigned to self.connection_successful (line 57);
\* logger.info is below the configured level ERROR and emits nothing
connectAck_connection_successful == TRUE

\* nextValidId(): value assigned to self.connection_successful (line 65)
nextValidId_connection_successful == TRUE

\* app.disconnect() called by who
disconnect_by(who) == [disconnects EXCEPT ![who] = @ + 1]

DisconnectRequested == disconnects.poller + disconnects.listener > 0

\* less than timeout has elapsed since the poller took start_time (line 97)
InTime ==
    \/ pc \in {"connect", "start_thread", "start_time"}
    \/ clock - start_time < timeout

\* the event pump (app.run in api_thread) is between two callbacks
ListenerCanDeliver ==
    /\ api_thread = "running"
    /\ l_pc = "idle"
    /\ nEvents < MaxEvents

\* the listener invokes error(reqId, errorCode, errorString)
error(errorCode, errorString) ==
    /\ ListenerCanDeliver
    /\ connection_error' = error_connection_error(errorCode, errorString, connection_error)
    /\ logged' = error_logged(errorCode, logged)
    /\ nEvents' = nEvents + 1
    /\ critSeen' = (critSeen \/ errorCode \in critical_errors)
    /\ critBeforeReady' = (critBeforeReady \/ (errorCode \in critical_errors /\ ~readySeen))
    /\ nonEssSeen' = (nonEssSeen \/ errorCode \in non_essential_errors)
    /\ critAfterNonEss' = (critAfterNonEss \/ (nonEssSeen /\ errorCode \in critical_errors))
    /\ critAge' = IF /\ errorCode \in critical_errors
                     /\ critAge = -1
                     /\ result = "none"
                     /\ ~connection_successful
                  THEN 0 ELSE critAge
    /\ UNCHANGED <<connection_successful, api_thread, l_pc, disconnects, printed,
                   readySeen, readyInTime, ackSeen>>
    /\ UNCHANGED <<pollerVars, inputVars, clock>>

\* the listener invokes connectAck()
connectAck ==
    /\ ListenerCanDeliver
    /\ connection_successful' = connectAck_connection_successful
    /\ nEvents' = nEvents + 1
    /\ ackSeen' = TRUE
    /\ UNCHANGED <<connection_error, logged, printed, api_thread, l_pc, disconnects,
                   readySeen, readyInTime, critSeen, critBeforeReady, nonEssSeen,
                   critAfterNonEss, critAge>>
    /\ UNCHANGED <<pollerVars, inputVars, clock>>

\* the listener invokes nextValidId(orderId): lines 64-67, the flag and the prints
nextValidId ==
    /\ ListenerCanDeliver
    /\ connection_successful' = nextValidId_connection_successful
    /\ printed' = printed \cup {"success"}
    /\ l_pc' = "nextValidId_disconnect"
    /\ nEvents' = nEvents + 1
    /\ readySeen' = TRUE
    /\ readyInTime' = (readyInTime \/ InTime)
    /\ UNCHANGED <<connection_error, logged, api_thread, disconnects, critSeen,
                   critBeforeReady, ackSeen, nonEssSeen, critAfterNonEss, critAge>>
    /\ UNCHANGED <<pollerVars, inputVars, clock>>

\* mutant: disconnect() is skipped when a critical error was recorded
nextValidId_disconnect_unless_error ==
    /\ l_pc = "nextValidId_disconnect"
    /\ disconnects' = IF connection_error = None THEN disconnect_by("listener") ELSE disconnects
    /\ l_pc' = "idle"
    /\ UNCHANGED <<flagVars, logged, printed, api_thread, histVars>>
    /\ UNCHANGED <<pollerVars, inputVars, clock>>

\* nextValidId(orderId): line 70, self.disconnect()
nextValidId_disconnect ==
    /\ l_pc = "nextValidId_disconnect"
    /\ disconnects' = disconnect_by("listener")
    /\ l_pc' = "idle"
    /\ UNCHANGED <<flagVars, logged, printed, api_thread, histVars>>
    /\ UNCHANGED <<pollerVars, inputVars, clock>>

\* app.run returns: the pump ends once the session was disconnected
run_returns ==
    /\ api_thread = "running"
    /\ l_pc = "idle"
    /\ DisconnectRequested
    /\ api_thread' = "finished"
    /\ UNCHANGED <<flagVars, logged, printed, l_pc, disconnects, histVars>>
    /\ UNCHANGED <<pollerVars, inputVars, clock>>

\* ------------------------------------------------------- check_connection

listenerVars == <<api_thread, l_pc>>

\* the loop condition of line 98
loop_continues ==
    ~connection_successful /\ clock - start_time < timeout

\* the test of line 101 (a critical message is a non-empty string: truthy)
error_observed == connection_error /= None

\* the test of line 107
timed_out == ~connection_successful

\* line 114: the value returned on the success path
success_return_value == IF connection_successful THEN "True" ELSE "False"

\* line 90, app.connect returns normally
connect_ok ==
    /\ pc = "connect"
    /\ pc' = "start_thread"
    /\ UNCHANGED <<start_time, sleepLeft, joinLeft, result, exit_code, connectRaised>>
    /\ UNCHANGED <<flagVars, listenerVars, disconnects, logged, printed, histVars,
                   inputVars, clock>>

\* mutant: app.connect is called outside the try block
connect_raises_outside_try ==
    /\ pc = "connect"
    /\ pc' = "uncaught"
    /\ connectRaised' = TRUE
    /\ UNCHANGED <<start_time, sleepLeft, joinLeft, result, exit_code>>
    /\ UNCHANGED <<flagVars, api_thread, l_pc, disconnects, logged, printed, histVars,
                   inputVars, clock>>

\* line 90, app.connect raises: control goes to the handler of line 116
connect_raises ==
    /\ pc = "connect"
    /\ pc' = "except"
    /\ connectRaised' = TRUE
    /\ UNCHANGED <<start_time, sleepLeft, joinLeft, result, exit_code>>
    /\ UNCHANGED <<flagVars, listenerVars, disconnects, logged, printed, histVars,
                   inputVars, clock>>

\* lines 93-94: threading.Thread(target=app.run).start(); the name threading is
\* bound only by line 122, otherwise line 93 raises NameError
start_thread ==
    /\ pc = "start_thread"
    /\ IF run_as_main
       THEN pc' = "start_time" /\ api_thread' = "running"
       ELSE pc' = "except" /\ api_thread' = api_thread
    /\ UNCHANGED <<start_time, sleepLeft, joinLeft, result, exit_code, connectRaised>>
    /\ UNCHANGED <<flagVars, l_pc, disconnects, logged, printed, histVars, inputVars, clock>>

\* line 97
set_start_time ==
    /\ pc = "start_time"
    /\ start_time' = clock
    /\ pc' = "loop"
    /\ UNCHANGED <<sleepLeft, joinLeft, result, exit_code, connectRaised>>
    /\ UNCHANGED <<flagVars, listenerVars, disconnects, logged, printed, histVars,
                   inputVars, clock>>

\* line 98: the while test; line 99 starts the sleep
loop_test ==
    /\ pc = "loop"
    /\ IF loop_continues
       THEN pc' = "sleep" /\ sleepLeft' = PollInterval
       ELSE pc' = "timeout_check" /\ sleepLeft' = sleepLeft
    /\ UNCHANGED <<start_time, joinLeft, result, exit_code, connectRaised>>
    /\ UNCHANGED <<flagVars, listenerVars, disconnects, logged, printed, histVars,
                   inputVars, clock>>

\* one unit of time passes while the poller waits in time.sleep (line 99) or in
\* api_thread.join (line 113); the sleep ends when its time is up
tick ==
    /\ l_pc = "idle"
    /\ \/ /\ pc = "sleep"
          /\ sleepLeft > 0
          /\ sleepLeft' = sleepLeft - 1
          /\ pc' = IF sleepLeft = 1 THEN "check_error" ELSE pc
          /\ UNCHANGED joinLeft
       \/ /\ pc = "join"
          /\ api_thread = "running"
          /\ joinLeft > 0
          /\ joinLeft' = joinLeft - 1
          /\ UNCHANGED <<pc, sleepLeft>>
    /\ clock' = clock + 1
    /\ critAge' = IF critAge \in 0..PollInterval THEN critAge + 1 ELSE critAge
    /\ UNCHANGED <<start_time, result, exit_code, connectRaised>>
    /\ UNCHANGED <<flagVars, listenerVars, disconnects, logged, printed, inputVars>>
    /\ UNCHANGED <<nEvents, readySeen, readyInTime, critSeen, critBeforeReady, ackSeen,
                   nonEssSeen, critAfterNonEss>>

\* lines 101-102: the failure check after the sleep
check_error ==
    /\ pc = "check_error"
    /\ IF error_observed
       THEN pc' = "error_disconnect" /\ printed' = printed \cup {"critical"}
       ELSE pc' = "loop" /\ printed' = printed
    /\ UNCHANGED <<start_time, sleepLeft, joinLeft, result, exit_code, connectRaised>>
    /\ UNCHANGED <<flagVars, listenerVars, disconnects, logged, histVars, inputVars, clock>>

\* line 103
error_disconnect ==
    /\ pc = "error_disconnect"
    /\ disconnects' = disconnect_by("poller")
    /\ pc' = "error_return"
    /\ UNCHANGED <<start_time, sleepLeft, joinLeft, result, exit_code, connectRaised>>
    /\ UNCHANGED <<flagVars, listenerVars, logged, printed, histVars, inputVars, clock>>

\* mutant: the return of line 104 is missing, control falls out of the loop body
error_return_falling_through ==
    /\ pc = "error_return"
    /\ pc' = "timeout_check"
    /\ UNCHANGED <<start_time, sleepLeft, joinLeft, result, exit_code, connectRaised>>
    /\ UNCHANGED <<flagVars, listenerVars, disconnects, logged, printed, histVars,
                   inputVars, clock>>

\* line 104
error_return ==
    /\ pc = "error_return"
    /\ result' = "False"
    /\ pc' = "returned"
    /\ UNCHANGED <<start_time, sleepLeft, joinLeft, exit_code, connectRaised>>
    /\ UNCHANGED <<flagVars, listenerVars, disconnects, logged, printed, histVars,
                   inputVars, clock>>

\* lines 107-108: the check after the loop; line 113 starts the join
timeout_check ==
    /\ pc = "timeout_check"
    /\ IF timed_out
       THEN /\ pc' = "timeout_disconnect"
            /\ printed' = printed \cup {"timeout"}
            /\ joinLeft' = joinLeft
       ELSE /\ pc' = "join"
            /\ printed' = printed
            /\ joinLeft' = JoinTimeout
    /\ UNCHANGED <<start_time, sleepLeft, result, exit_code, connectRaised>>
    /\ UNCHANGED <<flagVars, listenerVars, disconnects, logged, histVars, inputVars, clock>>

\* line 109
timeout_disconnect ==
    /\ pc = "timeout_disconnect"
    /\ disconnects' = disconnect_by("poller")
    /\ pc' = "timeout_return"
    /\ UNCHANGED <<start_time, sleepLeft, joinLeft, result, exit_code, connectRaised>>
    /\ UNCHANGED <<flagVars, listenerVars, logged, printed, histVars, inputVars, clock>>

\* mutant: the poller records the timeout in app.connection_error
timeout_return_recording_error ==
    /\ pc = "timeout_return"
    /\ connection_error' = <<0, "timeout">>
    /\ result' = "False"
    /\ pc' = "returned"
    /\ UNCHANGED <<start_time, sleepLeft, joinLeft, exit_code, connectRaised>>
    /\ UNCHANGED <<connection_successful, listenerVars, disconnects, logged, printed,
                   histVars, inputVars, clock>>

\* line 110
timeout_return ==
    /\ pc = "timeout_return"
    /\ result' = "False"
    /\ pc' = "returned"
    /\ UNCHANGED <<start_time, sleepLeft, joinLeft, exit_code, connectRaised>>
    /\ UNCHANGED <<flagVars, listenerVars, disconnects, logged, printed, histVars,
                   inputVars, clock>>

\* mutant: api_thread.join() without a timeout
join_done_without_timeout == api_thread /= "running"

\* line 113: join returns when the thread has ended or when its timeout is up
join_done == api_thread /= "running" \/ joinLeft = 0

\* line 113: api_thread.join(timeout=5) returns
join_returns ==
    /\ pc = "join"
    /\ join_done
    /\ pc' = "return_flag"
    /\ UNCHANGED <<start_time, sleepLeft, joinLeft, result, exit_code, connectRaised>>
    /\ UNCHANGED <<flagVars, listenerVars, disconnects, logged, printed, histVars,
                   inputVars, clock>>

\* line 114
return_flag ==
    /\ pc = "return_flag"
    /\ result' = success_return_value
    /\ pc' = "returned"
    /\ UNCHANGED <<start_time, sleepLeft, joinLeft, exit_code, connectRaised>>
    /\ UNCHANGED <<flagVars, listenerVars, disconnects, logged, printed, histVars,
                   inputVars, clock>>

\* lines 116-118: the handler prints the exception and returns False
except_handler ==
    /\ pc = "except"
    /\ printed' = printed \cup {"connect_error"}
    /\ result' = "False"
    /\ pc' = "returned"
    /\ UNCHANGED <<start_time, sleepLeft, joinLeft, exit_code, connectRaised>>
    /\ UNCHANGED <<flagVars, listenerVars, disconnects, logged, histVars, inputVars, clock>>

\* -------------------------------------------------------------- __main__

\* mutant: sys.exit(success), which exits with 1 for True and 0 for False
exit_code_of_bool(success) == IF success = "True" THEN 1 ELSE 0

\* line 142: the argument of sys.exit
exit_code_of(success) == IF success = "True" THEN 0 ELSE 1

\* line 142, reached only when the module runs as __main__
sys_exit ==
    /\ pc = "returned"
    /\ run_as_main
    /\ exit_code' = exit_code_of(result)
    /\ pc' = "exited"
    /\ UNCHANGED <<start_time, sleepLeft, joinLeft, result, connectRaised>>
    /\ UNCHANGED <<flagVars, listenerVars, disconnects, logged, printed, histVars,
                   inputVars, clock>>

\* ------------------------------------------------------------ the system

Listener ==
    \/ \E errorCode \in Codes, errorString \in Messages : error(errorCode, errorString)
    \/ connectAck
    \/ nextValidId
    \/ nextValidId_disconnect
    \/ run_returns

Poller ==
    \/ connect_ok
    \/ connect_raises
    \/ start_thread
    \/ set_start_time
    \/ loop_test
    \/ check_error
    \/ error_disconnect
    \/ error_return
    \/ timeout_check
    \/ timeout_disconnect
    \/ timeout_return
    \/ join_returns
    \/ return_flag
    \/ except_handler
    \/ sys_exit

Next == Listener \/ Poller \/ tick

Spec == Init /\ [][Next]_vars

\* the poller and the listener keep running while they have a step to take, and
\* time passes while the poller waits
FairSpec ==
    /\ Spec
    /\ WF_vars(Poller)
    /\ WF_vars(tick)
    /\ WF_vars(nextValidId_disconnect)

\* --------------------------------------------------------------- claims

Returned == pc \in {"returned", "exited"}

\* C1: if an error with a critical code is delivered before the ready event
\* (nextValidId), check_connection returns False.
C1_CriticalBeforeReadyFails ==
    (Returned /\ critBeforeReady) => result = "False"

\* C2: check_connection returns True only if the ready event (nextValidId) was
\* delivered; connectAck alone never makes the outcome success.
C2_SuccessOnlyAfterReady ==
    result = "True" => readySeen

\* C3: if nextValidId is delivered before the timeout elapses and no critical
\* error was delivered before it, check_connection returns True.
C3_ReadyInTimeSucceeds ==
    (Returned /\ readyInTime /\ ~critBeforeReady) => result = "True"

\* C4: if neither nextValidId nor a critical error is delivered within timeout
\* of the start of polling, check_connection returns False after waiting at
\* least timeout and at most timeout plus one polling interval, whatever
\* connectAck and non-critical errors are delivered.  Stated for the sessions
\* in which neither has been delivered at all when check_connection returns.
C4_TimeoutFails ==
    (Returned /\ api_thread /= "none" /\ ~readySeen /\ ~critSeen)
        => /\ result = "False"
           /\ clock - start_time >= timeout
           /\ clock - start_time <= timeout + PollInterval

\* C5: when check_connection returns from a session whose listener was started
\* (success, critical error or timeout), disconnect() has been called.
C5_TeardownOnEveryOutcome ==
    (Returned /\ api_thread /= "none") => DisconnectRequested

\* C6: an error with a code in {2104, 2106, 2158}, whatever its message, leaves
\* connection_error and connection_successful unchanged and logs nothing.
C6_NonEssentialIgnored ==
    [][\A c \in {2104, 2106, 2158}, m \in Messages :
          error(c, m) => UNCHANGED <<connection_error, connection_successful, logged>>]_vars

\* only errors with non-essential codes have been delivered, and the poller has
\* gone on polling
C6_Witness ==
    /\ nEvents = MaxEvents
    /\ ~ackSeen /\ ~readySeen /\ logged = 0
    /\ pc = "check_error"

\* C7: check_connection always terminates, also when the listener never stops:
\* the polling loop ends no later than timeout plus one polling interval, the
\* call lasts at most timeout + polling interval + the join bound, and when
\* app.connect raised (unreachable host) the result is False.
C7_AlwaysTerminates ==
    /\ <>Returned
    /\ [](pc \in {"loop", "sleep", "check_error"}
            => clock - start_time <= timeout + PollInterval)
    /\ [](clock - start_time <= timeout + PollInterval + JoinTimeout)
    /\ [](Returned /\ connectRaised => result = "False")

\* the join gave up on a listener that was still running, and the call returned
C7_Witness ==
    /\ Returned
    /\ api_thread = "running"
    /\ joinLeft = 0
    /\ clock - start_time >= JoinTimeout

\* C8: connection_successful once True is never set back to False, and
\* connection_error once set is never reset to None.
C8_FlagsNeverReset ==
    [][/\ connection_successful => connection_successful'
       /\ connection_error /= None => connection_error' /= None]_vars

\* both flags were set, the listener requested the disconnect and ended
C8_Witness ==
    /\ connection_successful
    /\ connection_error /= None
    /\ nEvents = MaxEvents
    /\ disconnects.listener > 0
    /\ api_thread = "finished"

\* C9: if app.connect raises, check_connection prints the error and returns
\* False at once: no listener thread, no polling wait, no uncaught exception.
C9_ConnectErrorFailsAtOnce ==
    connectRaised =>
        /\ api_thread = "none"
        /\ clock = 0 /\ sleepLeft = 0 /\ joinLeft = 0
        /\ pc \in {"except", "returned", "exited"}
        /\ result \in {"none", "False"}
        /\ Returned => (result = "False" /\ "connect_error" \in printed)

C9_Witness ==
    connectRaised /\ Returned

\* C10: the exit code is 0 exactly when check_connection returned True and 1
\* in every other case; no other exit code occurs.
C10_ExitCode ==
    /\ exit_code \in {-1, 0, 1}
    /\ pc = "exited" <=> exit_code /= -1
    /\ pc = "exited" => /\ exit_code = 0 <=> result = "True"
                        /\ exit_code = 1 <=> result = "False"

C10_Witness ==
    pc = "exited" /\ exit_code = 0 /\ result = "True"

\* C11: when a critical error is delivered and the ready event does not arrive,
\* check_connection returns False within one polling interval of the delivery
\* (the failure check after the sleep disconnects and returns at once).
C11_FailureWithinOnePoll ==
    (Returned /\ critAge >= 0 /\ ~readySeen)
        => /\ result = "False"
           /\ critAge <= PollInterval

\* C12: for every critical code, in every state of the session, the error
\* callback sets connection_error to the message of that code and leaves
\* connection_successful unchanged.
C12_CriticalSetsError ==
    [][\A c \in {1100, 1101, 1102, 1300, 504, 502, 509, 10054}, m \in Messages :
          error(c, m) => /\ connection_error' = <<c, m>>
                         /\ connection_successful' = connection_successful]_vars

\* a critical error was delivered in a session that connectAck had marked
\* successful, and it is recorded
C12_Witness ==
    /\ ackSeen
    /\ connection_successful
    /\ critSeen
    /\ connection_error /= None

\* C13 as stated: after an error with a non-essential code was delivered, a later
\* error with a critical code no longer sets the failure state.
C13_CriticalSuppressedAfterNonEssential ==
    [][(nonEssSeen /\ \E c \in critical_errors, m \in Messages : error(c, m))
          => connection_error' = connection_error]_vars

\* C13 amended: the filter looks at the code of the event at hand only; after an
\* error with a non-essential code, a later error with a critical code still
\* sets the failure state.
C13_CriticalDetectedAfterNonEssential ==
    [][\A c \in critical_errors, m \in Messages :
          (nonEssSeen /\ error(c, m)) => connection_error' = <<c, m>>]_vars

\* a critical error followed a non-essential one and is recorded
C13_Witness ==
    critAfterNonEss /\ connection_error /= None

\* C14: an error whose code is in neither list is logged and leaves
\* connection_error and connection_successful unchanged.
C14_OtherCodesOnlyLogged ==
    [][\A c \in Codes \ ({2104, 2106, 2158} \cup {1100, 1101, 1102, 1300, 504, 502, 509, 10054}),
          m \in Messages :
          error(c, m) => /\ logged' = logged + 1
                         /\ UNCHANGED <<connection_error, connection_successful>>]_vars

\* only such errors were delivered and logged, and the poller ran into the timeout
C14_Witness ==
    /\ nEvents = MaxEvents
    /\ logged = MaxEvents
    /\ ~critSeen
    /\ connection_error = None
    /\ pc = "timeout_return"

\* C15: every step of the poller (any step that moves pc, and the passing of
\* time in sleep and join) leaves connection_successful and connection_error
\* unchanged.
C15_PollerNeverWritesFlags ==
    [][(pc' /= pc \/ clock' /= clock \/ result' /= result \/ exit_code' /= exit_code)
          => UNCHANGED <<connection_successful, connection_error>>]_vars

\* the poller ran through the failure path to the exit with both flags set
C15_Witness ==
    /\ pc = "exited"
    /\ disconnects.poller = 1
    /\ connection_successful
    /\ connection_error /= None

\* C16: on every nextValidId the listener sets the success flag and calls
\* disconnect() within the callback, before it handles a further event, whether
\* or not a critical error was recorded.
C16_ReadyRequestsTeardown ==
    /\ [](l_pc = "nextValidId_disconnect" => connection_successful)
    /\ [][/\ nextValidId => l_pc' = "nextValidId_disconnect"
          /\ l_pc = "nextValidId_disconnect"
                => /\ nEvents' = nEvents
                   /\ api_thread' = api_thread
                   /\ l_pc' = "idle" => disconnects'.listener = disconnects.listener + 1]_vars

\* nextValidId came after a recorded critical error and its callback has
\* called disconnect()
C16_Witness ==
    /\ critBeforeReady
    /\ connection_error /= None
    /\ readySeen
    /\ l_pc = "idle"
    /\ disconnects.listener = 1

\* C17: at the moment check_connection returns True, connection_error is None.
C17_NoSuccessWithErrorRecorded ==
    [][(result = "none" /\ result' = "True") => connection_error' = None]_vars

\* C18 as stated: disconnect() is never called by both the listener and the
\* poller in the same session.
C18_SingleTeardown ==
    ~(disconnects.listener > 0 /\ disconnects.poller > 0)

\* C18 amended: the poller calls disconnect() at most once per invocation, and
\* only on a path that returns False.
C18_PollerDisconnectsAtMostOnce ==
    /\ disconnects.poller <= 1
    /\ result = "True" => disconnects.poller = 0
    /\ disconnects.poller = 1 =>
          pc \in {"error_return", "timeout_return", "returned", "exited"}

\* the poller and the listener have both called disconnect()
C18_Witness ==
    disconnects.poller = 1 /\ disconnects.listener > 0

====
